---- MODULE Spec2Model ----
(***************************************************************************)
(* Model of download_gradcas.py: the batch driver main() and the portal    *)
(* navigator operations it awaits, one action per awaited operation.       *)
(* Strings are sequences of one-character strings.                         *)
(***************************************************************************)
EXTENDS Integers, Sequences, FiniteSets, TLC

\* ------------------------------------------------------------------ bounds
MaxRoster == 2
MaxRows == 2
MaxSheetRows == 2
MaxLen == 3
MaxPages == 2
MaxPdfs == 2

\* the default of extract_text_from_pdf's parameter ocr_threshold
ocr_threshold == 50

\* ------------------------------------------------------------ characters
LowerLetters == {"a", "b", "l", "x"}
UpperLetters == {"A", "B", "L"}
Digits == {"1"}
Whitespace == {" "}

\* str.lower() on one character
ToLower(c) ==
    CASE c = "A" -> "a"
      [] c = "B" -> "b"
      [] c = "L" -> "l"
      [] OTHER -> c

\* str.lower()
Lower(s) == [i \in 1..Len(s) |-> ToLower(s[i])]

IsWordOnly(c) == c \in LowerLetters \cup UpperLetters \cup Digits \cup {"_"}

\* the regular expression class [\w\-] of clean()
IsWordOrHyphen(c) == c \in LowerLetters \cup UpperLetters \cup Digits \cup {"_", "-"}

\* re.sub(r'[^\w\-]', '_', s)
clean(s) == [i \in 1..Len(s) |-> IF IsWordOrHyphen(s[i]) THEN s[i] ELSE "_"]

\* f"{clean(last)}_{clean(first)}.pdf"
safe_filename(first, last) ==
    clean(last) \o <<"_">> \o clean(first) \o <<".", "p", "d", "f">>

\* str.strip()
RECURSIVE LStrip(_)
LStrip(s) == IF s # <<>> /\ Head(s) \in Whitespace THEN LStrip(Tail(s)) ELSE s
RECURSIVE RStrip(_)
RStrip(s) ==
    IF s # <<>> /\ s[Len(s)] \in Whitespace
    THEN RStrip(SubSeq(s, 1, Len(s) - 1)) ELSE s
Strip(s) == RStrip(LStrip(s))

\* Python's  sub in s  on strings
Contains(sub, s) ==
    \E i \in 0..(Len(s) - Len(sub)) : SubSeq(s, i + 1, i + Len(sub)) = sub

\* ------------------------------------------------------------ input sets
\* applicant records as load_applicants builds them (cells already stripped)
Pool ==
    { [first |-> <<"A">>, last |-> <<"L">>],
      [first |-> <<"b", ".">>, last |-> <<"L">>] }

RECURSIVE SeqsUpTo(_, _)
SeqsUpTo(S, n) ==
    IF n = 0 THEN {<<>>}
    ELSE LET shorter == SeqsUpTo(S, n - 1)
         IN shorter \cup {Append(q, x) : q \in {r \in shorter : Len(r) = n - 1}, x \in S}

Rosters == SeqsUpTo(Pool, MaxRoster)

\* two applicants whose names differ in a character that clean() replaces
CollisionPool ==
    { [first |-> <<"b", ".">>, last |-> <<"L">>],
      [first |-> <<"b", "_">>, last |-> <<"L">>] }

\* text_content() of the result rows the portal may show
RowTexts == { <<" ", "l", " ", "a">>, <<"L", "_", "B", ".">> }
RowLists == SeqsUpTo(RowTexts, MaxRows)

\* worksheets: a header row, then one row per roster entry
FIRST_NAME_COL == "First Name"
LAST_NAME_COL == "Last Name"
HeaderRows == { <<FIRST_NAME_COL, LAST_NAME_COL>>, <<FIRST_NAME_COL, "Surname">> }
SheetOf(h, r) == <<h>> \o [i \in 1..Len(r) |-> <<r[i].first, r[i].last>>]
Sheets == {SheetOf(h, r) : h \in HeaderRows, r \in Rosters}

\* worksheets handed to load_applicants alone: columns in any order, cells
\* empty, blank or padded
LoadHeaderRows ==
    { <<FIRST_NAME_COL, LAST_NAME_COL, "Email">>,
      <<LAST_NAME_COL, "Email", FIRST_NAME_COL>>,
      <<"Email", FIRST_NAME_COL, "Surname">> }
CellValues == { <<>>, <<" ">>, <<" ", "A", " ">> }
LoadSheets ==
    {<<h>> \o r : h \in LoadHeaderRows,
                  r \in SeqsUpTo([1..3 -> CellValues], MaxSheetRows)}

\* names handed to clean() alone
NameChars == {"a", "L", "1", "_", "-", " ", ".", "/"}
Names == SeqsUpTo(NameChars, MaxLen)

\* PDF documents handed to extract_text_from_pdf: per page what get_text()
\* returns and what pytesseract.image_to_string would return or raise
Repeat(c, n) == [i \in 1..n |-> c]
PageTexts ==
    { <<>>,
      <<" ">> \o Repeat("x", ocr_threshold - 1) \o <<" ">>,
      Repeat("x", ocr_threshold) }
OcrReadings ==
    { [err |-> FALSE, text |-> <<" ">>],
      [err |-> FALSE, text |-> <<" ", "o">>],
      [err |-> TRUE, text |-> <<>>] }
Pages == [text : PageTexts, ocr : OcrReadings]
Docs == SeqsUpTo(Pages, MaxPages)
Thresholds == {ocr_threshold - 1, ocr_threshold}

\* folders handed to batch_convert: what glob("*.pdf") lists, in any order;
\* per file whether fitz.open reads it, its pages, and whether write_text of
\* its .txt file works
Stems == { <<"a">>, <<"B">>, <<"a", "b">> }
FileKinds ==
    { [opens |-> TRUE, writable |-> TRUE,
       doc |-> <<[text |-> Repeat("x", ocr_threshold),
                  ocr |-> [err |-> FALSE, text |-> <<" ">>]]>>],
      [opens |-> FALSE, writable |-> TRUE, doc |-> <<>>],
      [opens |-> TRUE, writable |-> TRUE,
       doc |-> <<[text |-> <<>>, ocr |-> [err |-> TRUE, text |-> <<>>]]>>],
      [opens |-> TRUE, writable |-> FALSE, doc |-> <<>>] }
PdfFiles == [stem : Stems, kind : FileKinds]
Listings ==
    {l \in SeqsUpTo(PdfFiles, MaxPdfs) :
        \A j, k \in DOMAIN l : j # k => l[j].stem # l[k].stem}

Dests == {safe_filename(a.first, a.last) : a \in Pool}
FileStates == {"absent", "empty", "data"}

Outcomes == {"ok", "timeout", "error"}

VARIABLES
    pc,         \* position of main()
    roster,     \* applicants
    idx,        \* number of roster entries the for loop has finished
    succeeded,  \* main's list succeeded
    failed,     \* main's list failed
    files,      \* DOWNLOAD_DIR: state of each destination file
    view,       \* page the browser session shows
    filter,     \* a search filter is active in the list view
    steps,      \* operations awaited for the roster entry of the loop body
    ev,         \* what the operation just awaited in the loop body met and did
    sheet,      \* rows of the active worksheet of EXCEL_PATH, header row first
    arg,        \* string handed to clean()
    result,     \* what clean() returned
    pdf,        \* extract_text_from_pdf: its arguments, OCR_AVAILABLE, its result
    batch       \* batch_convert: the input folder, its locals, the .txt files

vars == <<pc, roster, idx, succeeded, failed, files, view, filter, steps, ev,
          sheet, arg, result, pdf, batch>>

NoEv ==
    [op |-> "none", res |-> "none", timedOut |-> FALSE, idle |-> TRUE,
     ui |-> "ok", typed |-> FALSE, rows |-> <<>>, clicked |-> 0, msg |-> "",
     link |-> "none", fallback |-> "none"]

NoPdf ==
    [doc |-> <<>>, ocr_threshold |-> ocr_threshold, OCR_AVAILABLE |-> FALSE,
     raised |-> FALSE, full_text |-> <<>>, ocr_pages |-> <<>>]

NoBatch ==
    [exists |-> FALSE, listing |-> <<>>, OCR_AVAILABLE |-> FALSE, pdf_files |-> <<>>,
     i |-> 0, success |-> 0, failed |-> <<>>, written |-> {}, log |-> <<>>]

Init ==
    /\ pc = "load"
    /\ batch = NoBatch
    /\ pdf = NoPdf
    /\ sheet \in Sheets
    /\ roster = <<>>
    /\ arg = <<>>
    /\ result = <<>>
    /\ idx = 0
    /\ succeeded = <<>>
    /\ failed = <<>>
    /\ files \in [Dests -> FileStates]
    /\ view = "blank"
    /\ filter = FALSE
    /\ steps = <<>>
    /\ ev = NoEv

\* ------------------------------------------------------- main's bookkeeping
CurReversed == roster[Len(roster) - idx]

\* for first, last in applicants: the roster entry being worked on
Cur == roster[idx + 1]

\* f"{first} {last}"
FullName(a) == a.first \o <<" ">> \o a.last

DestExistsNonEmpty(fs, d) == fs[d] = "data"

\* dest.exists()
DestExists(fs, d) == fs[d] # "absent"

AfterRaiseUncaught == "crashed"

\* where main continues after its except clause has caught an exception
AfterRaise == "loop"

AppendFailedDropped(f, entry) == f

\* failed.append(...)
AppendFailed(f, entry) == Append(f, entry)

\* the loop body ends with one entry in succeeded
Succeed ==
    /\ succeeded' = Append(succeeded, FullName(Cur))
    /\ failed' = failed
    /\ idx' = idx + 1
    /\ pc' = "loop"

\* the loop body ends with one entry in failed (failed.append(...); continue)
Fail(reason) ==
    /\ failed' = AppendFailed(failed, [name |-> FullName(Cur), reason |-> reason])
    /\ succeeded' = succeeded
    /\ idx' = idx + 1
    /\ pc' = "loop"

RaiseUnrecorded ==
    /\ UNCHANGED <<succeeded, failed>>
    /\ idx' = idx + 1
    /\ pc' = AfterRaise

\* an exception left the awaited operation: main's except clause
Raise ==
    /\ failed' = AppendFailed(failed, [name |-> FullName(Cur), reason |-> "error"])
    /\ succeeded' = succeeded
    /\ idx' = idx + 1
    /\ pc' = AfterRaise

ReactIgnoringFailure(r, reason, next) ==
    CASE r = "raise" -> Raise
      [] OTHER -> /\ pc' = next
                  /\ UNCHANGED <<succeeded, failed, idx>>

ReactBranchingBack(r, reason, next) ==
    CASE r = "fail" -> Fail(reason)
      [] r = "raise" -> Raise
      [] OTHER -> /\ pc' = IF next = "tab" THEN "search" ELSE next
                  /\ UNCHANGED <<succeeded, failed, idx>>

\* what main does with an operation's result r and, on success, its next step
React(r, reason, next) ==
    CASE r = "raise" -> Raise
      [] r = "fail" -> Fail(reason)
      [] OTHER -> /\ pc' = next
                  /\ UNCHANGED <<succeeded, failed, idx>>

\* --------------------------------------------------------------- start-up
\* headers.index(col), 0 standing for ValueError
Index(headers, col) ==
    IF \E i \in DOMAIN headers : headers[i] = col
    THEN CHOOSE i \in DOMAIN headers :
            /\ headers[i] = col
            /\ \A j \in DOMAIN headers : headers[j] = col => i <= j
    ELSE 0

\* str(row[i]).strip() if row[i] else ""  (an empty cell is <<>>)
CellText(c) == IF c = <<>> THEN <<>> ELSE Strip(c)

KeepRowBothRequired(first, last) == first # <<>> /\ last # <<>>

\* if first or last
KeepRow(first, last) == first # <<>> \/ last # <<>>

\* for row in ws.iter_rows(min_row=2, values_only=True)
RECURSIVE LoadRows(_, _, _)
LoadRows(rows, fi, li) ==
    IF rows = <<>> THEN <<>>
    ELSE LET first == CellText(Head(rows)[fi])
             last == CellText(Head(rows)[li])
             rest == LoadRows(Tail(rows), fi, li)
         IN IF KeepRow(first, last)
            THEN <<[first |-> first, last |-> last]>> \o rest
            ELSE rest

load_applicants(ws, first_col, last_col) ==
    LoadRows(SubSeq(ws, 2, Len(ws)),
             Index(ws[1], first_col), Index(ws[1], last_col))

AfterSysExitIgnored == "launch"

\* where the process is after sys.exit in load_applicants
AfterSysExit == "exit"

\* applicants = load_applicants(EXCEL_PATH, FIRST_NAME_COL, LAST_NAME_COL)
LoadApplicants ==
    /\ pc = "load"
    /\ IF Index(sheet[1], FIRST_NAME_COL) = 0 \/ Index(sheet[1], LAST_NAME_COL) = 0
       THEN /\ pc' = AfterSysExit
            /\ roster' = roster
       ELSE /\ pc' = "launch"
            /\ roster' = load_applicants(sheet, FIRST_NAME_COL, LAST_NAME_COL)
    /\ UNCHANGED <<batch, pdf, sheet, arg, result, idx, succeeded, failed, files, view, filter, steps, ev>>

\* browser launch and page.goto, whose failure is only reported
LaunchBrowser ==
    /\ pc = "launch"
    /\ pc' = "prompt"
    /\ \E loaded \in BOOLEAN : view' = IF loaded THEN "portal" ELSE "blank"
    /\ UNCHANGED <<batch, pdf, sheet, arg, result, roster, idx, succeeded, failed, files, filter, steps, ev>>

\* input() returns: the operator has logged in and opened the list page
Confirm ==
    /\ pc = "prompt"
    /\ pc' = "loop"
    /\ view' = "list"
    /\ ev' = [NoEv EXCEPT !.op = "input", !.res = "ok"]
    /\ UNCHANGED <<batch, pdf, sheet, arg, result, roster, idx, succeeded, failed, files, filter, steps>>

AfterInterruptProceeds == "loop"

\* where main is after the except clause around input(): return
AfterInterrupt == "interrupted"

\* input() raises EOFError or KeyboardInterrupt: main returns
Interrupt ==
    /\ pc = "prompt"
    /\ pc' = AfterInterrupt
    /\ ev' = [NoEv EXCEPT !.op = "input", !.res = "raise"]
    /\ UNCHANGED <<batch, pdf, sheet, arg, result, roster, idx, succeeded, failed, files, view, filter, steps>>

\* ------------------------------------------------------------ the for loop
\* dest exists: "Already downloaded, skipping"
SkipExisting ==
    /\ pc = "loop"
    /\ idx < Len(roster)
    /\ DestExists(files, safe_filename(Cur.first, Cur.last))
    /\ Succeed
    /\ steps' = <<>>
    /\ ev' = [NoEv EXCEPT !.op = "skip"]
    /\ UNCHANGED <<batch, pdf, sheet, arg, result, roster, files, view, filter>>

\* go_back_to_list, awaited right after the exists test fails
GoBackToList ==
    /\ pc = "loop"
    /\ idx < Len(roster)
    /\ ~DestExists(files, safe_filename(Cur.first, Cur.last))
    /\ steps' = <<"back">>
    /\ \E click \in Outcomes, cancel \in {"clicked", "none", "error"} :
        /\ (click # "ok") => cancel = "none"
        /\ (click = "ok") => ((cancel = "clicked") => filter)
        /\ (click = "ok") => ((cancel = "none") => ~filter)
        /\ view' = IF click = "ok" THEN "list" ELSE view
        /\ filter' = IF click = "ok" /\ cancel = "clicked" THEN FALSE ELSE filter
        /\ ev' = [NoEv EXCEPT !.op = "back",
                              !.res = IF click = "error" THEN "raise" ELSE "none",
                              !.timedOut = (click = "timeout")]
        /\ React(IF click = "error" THEN "raise" ELSE "none", "", "search")
    /\ UNCHANGED <<batch, pdf, sheet, arg, result, roster, files>>

\* the for loop is exhausted: no roster entry is being worked on any more
LoopExit ==
    /\ pc = "loop"
    /\ idx = Len(roster)
    /\ pc' = "close"
    /\ steps' = <<>>
    /\ ev' = NoEv
    /\ UNCHANGED <<batch, pdf, sheet, arg, result, roster, idx, succeeded, failed, files, view, filter>>

\* ---------------------------------------------- search_and_open_applicant
\* first.lower() in text.lower() and last.lower() in text.lower()
MatchesBoth(first, last, text) ==
    /\ Contains(Lower(first), Lower(text))
    /\ Contains(Lower(last), Lower(text))

\* the test of the scan on the stripped text of a row, for every applicant and
\* every row text of the input sets
RowMatches ==
    [n \in {<<a.first, a.last>> : a \in Pool \cup CollisionPool} |->
        [t \in RowTexts |-> MatchesBoth(n[1], n[2], Strip(t))]]

RECURSIVE ScanRowsLast(_, _, _, _)
ScanRowsLast(first, last, rows, i) ==
    IF i > Len(rows) THEN 0
    ELSE LET later == ScanRowsLast(first, last, rows, i + 1)
         IN IF later # 0 THEN later
            ELSE IF RowMatches[<<first, last>>][rows[i]] THEN i
            ELSE 0

\* the for loop over the rows from index i on: the first matching row, 0 for None
RECURSIVE ScanRows(_, _, _, _)
ScanRows(first, last, rows, i) ==
    IF i > Len(rows) THEN 0
    ELSE IF RowMatches[<<first, last>>][rows[i]] THEN i
    ELSE ScanRows(first, last, rows, i + 1)

TargetRowGuessFirst(first, last, rows) ==
    LET t == ScanRows(first, last, rows, 1)
    IN IF t # 0 THEN t
       ELSE IF Len(rows) >= 1 THEN 1
       ELSE 0

\* target_row: the scan's row, else the single row, else 0 (return False)
TargetRow(first, last, rows) ==
    LET t == ScanRows(first, last, rows, 1)
    IN IF t # 0 THEN t
       ELSE IF Len(rows) = 1 THEN 1
       ELSE 0

\* the waits before the rows are read: load state "networkidle", then the
\* search button, the input, fill and press
SearchSubmitted(idle, ui) == idle /\ ui = "ok"

\* the click on the target row: last td first, the whole row on a timeout
RowClick(c1, c2) ==
    CASE c1 = "ok" -> "ok"
      [] c1 = "error" -> "raise"
      [] c2 = "ok" -> "ok"
      [] OTHER -> "raise"

\* what search_and_open_applicant does on a portal that reaches network idle
\* or not (idle), whose search controls answer ui, that lists rows, and whose
\* two row clicks answer c1 and c2
SearchOutcome(first, last, idle, ui, rows, c1, c2) ==
    LET sent == SearchSubmitted(idle, ui)
        t == IF sent /\ Len(rows) > 0 THEN TargetRow(first, last, rows) ELSE 0
        click == IF t # 0 THEN RowClick(c1, c2) ELSE "none"
    IN [op |-> "search",
        res |-> IF t = 0 THEN "fail" ELSE click,
        timedOut |-> IF ~idle THEN TRUE
                     ELSE IF ui # "ok" THEN ui = "timeout"
                     ELSE IF t = 0 THEN FALSE
                     ELSE c1 = "timeout" /\ c2 = "timeout",
        idle |-> idle,
        ui |-> ui,
        typed |-> sent,
        rows |-> rows,
        clicked |-> IF click = "ok" THEN t ELSE 0]

\* what the operation never reads is taken in one way only: the controls as
\* present, no rows, the clicks as successful
SearchAndOpenApplicant ==
    /\ pc = "search"
    /\ steps' = Append(steps, "search")
    /\ \E idle \in BOOLEAN :
       \E ui \in IF idle THEN Outcomes ELSE {"ok"} :
       \E rows \in IF idle /\ ui # "ok" THEN {<<>>} ELSE RowLists :
       \E c1 \in IF SearchSubmitted(idle, ui)
                      /\ TargetRow(Cur.first, Cur.last, rows) # 0
                  THEN Outcomes ELSE {"ok"} :
       \E c2 \in IF c1 = "timeout" THEN Outcomes ELSE {"ok"} :
        LET o == SearchOutcome(Cur.first, Cur.last, idle, ui, rows, c1, c2)
        IN /\ ev' = o
           /\ filter' = IF o.typed THEN TRUE ELSE filter
           /\ view' = IF o.clicked # 0 THEN "profile" ELSE view
           /\ React(o.res, "not found", "sidebar")
    /\ UNCHANGED <<batch, pdf, sheet, arg, result, roster, files>>

\* --------------------------------------------- click_applications_sidebar
\* every exception is caught: the link is found by one of the strategies or
\* not, and the click succeeds or not
ClickApplicationsSidebar ==
    /\ pc = "sidebar"
    /\ steps' = Append(steps, "sidebar")
    /\ \E found \in BOOLEAN, click \in Outcomes :
        LET ok == found /\ click = "ok"
        IN /\ ev' = [NoEv EXCEPT !.op = "sidebar",
                                 !.res = IF ok THEN "ok" ELSE "fail",
                                 !.timedOut = found /\ click = "timeout"]
           /\ view' = IF ok THEN "applications" ELSE view
           /\ React(IF ok THEN "ok" ELSE "fail", "Applications sidebar missing", "row")
    /\ UNCHANGED <<batch, pdf, sheet, arg, result, roster, files, filter>>

\* -------------------------------------------------- click_application_row
\* the link click, then on PWTimeout the last td of the first row; only a
\* PWTimeout of the fallback is caught inside the handler
\* except PWTimeout: the handler that tries the fallback click
FallbackTried(c1) == c1 = "timeout"

ApplicationRowResultNoFallback(c1, c2) == IF c1 = "ok" THEN "ok" ELSE "fail"

ApplicationRowResult(c1, c2) ==
    CASE c1 = "ok" -> "ok"
      [] ~FallbackTried(c1) -> "fail"
      [] c2 = "ok" -> "ok"
      [] c2 = "timeout" -> "fail"
      [] OTHER -> "raise"

ClickApplicationRow ==
    /\ pc = "row"
    /\ steps' = Append(steps, "row")
    /\ \E c1 \in Outcomes, c2 \in Outcomes :
        LET r == ApplicationRowResult(c1, c2)
        IN /\ ev' = [NoEv EXCEPT !.op = "row", !.res = r,
                                 !.timedOut = c1 = "timeout" /\ c2 = "timeout",
                                 !.link = c1,
                                 !.fallback = IF FallbackTried(c1) THEN c2 ELSE "none"]
           /\ view' = IF r = "ok" THEN "application" ELSE view
           /\ React(r, "could not open application", "tab")
    /\ UNCHANGED <<batch, pdf, sheet, arg, result, roster, files, filter>>

\* ------------------------- click_attachments_tab, expand_application_pdf
\* one click; only PWTimeout is caught
OneClickResult(c) ==
    CASE c = "ok" -> "ok"
      [] c = "timeout" -> "fail"
      [] OTHER -> "raise"

ClickAttachmentsTab ==
    /\ pc = "tab"
    /\ steps' = Append(steps, "tab")
    /\ \E c \in Outcomes :
        /\ ev' = [NoEv EXCEPT !.op = "tab", !.res = OneClickResult(c),
                              !.timedOut = (c = "timeout")]
        /\ view' = IF c = "ok" THEN "attachments" ELSE view
        /\ React(OneClickResult(c), "ATTACHMENTS tab missing", "expand")
    /\ UNCHANGED <<batch, pdf, sheet, arg, result, roster, files, filter>>

ExpandApplicationPdf ==
    /\ pc = "expand"
    /\ steps' = Append(steps, "expand")
    /\ \E c \in Outcomes :
        /\ ev' = [NoEv EXCEPT !.op = "expand", !.res = OneClickResult(c),
                              !.timedOut = (c = "timeout")]
        /\ view' = IF c = "ok" THEN "pdf" ELSE view
        /\ React(OneClickResult(c), "APPLICATION PDF section missing", "download")
    /\ UNCHANGED <<batch, pdf, sheet, arg, result, roster, files, filter>>

\* ------------------------------------------------------------ download_pdf
\* every exception is caught; on success the download was saved at dest
\* str(e) of the exception download_pdf catches
DownloadErrors == {"Timeout 30000ms exceeded", "No space left on device"}

DownloadReportsAlwaysOk(saved) == "ok"

\* return True after download.save_as(dest) and dest.stat(), False from the
\* except clause
DownloadReports(saved) == IF saved = "none" THEN "fail" ELSE "ok"

DownloadPdf ==
    /\ pc = "download"
    /\ steps' = Append(steps, "download")
    /\ \E saved \in {"data", "empty", "none"} :
      \E e \in IF saved = "none" THEN DownloadErrors ELSE {""} :
        LET d == safe_filename(Cur.first, Cur.last)
        IN /\ files' = IF saved = "none" THEN files ELSE [files EXCEPT ![d] = saved]
           /\ ev' = [NoEv EXCEPT !.op = "download", !.res = DownloadReports(saved),
                                 !.msg = e]
           /\ IF DownloadReports(saved) = "ok" THEN Succeed ELSE Fail("download failed")
    /\ UNCHANGED <<batch, pdf, sheet, arg, result, roster, view, filter>>

\* ------------------------------------------------------------------ the end
\* browser.close() and the summary
CloseAndSummarise ==
    /\ pc = "close"
    /\ pc' = "done"
    /\ view' = "closed"
    /\ UNCHANGED <<batch, pdf, sheet, arg, result, roster, idx, succeeded, failed, files, filter, steps, ev>>

LoopNext ==
    \/ SkipExisting
    \/ GoBackToList
    \/ SearchAndOpenApplicant
    \/ ClickApplicationsSidebar
    \/ ClickApplicationRow
    \/ ClickAttachmentsTab
    \/ ExpandApplicationPdf
    \/ DownloadPdf
    \/ LoopExit
    \/ CloseAndSummarise

Next ==
    \/ LoadApplicants
    \/ LaunchBrowser
    \/ Confirm
    \/ Interrupt
    \/ LoopNext

Spec == Init /\ [][Next]_vars

\* ------------------------- a run over look-alike names, download folder empty
CollisionInit ==
    /\ batch = NoBatch
    /\ pdf = NoPdf
    /\ pc = "load"
    /\ sheet \in {SheetOf(<<FIRST_NAME_COL, LAST_NAME_COL>>, r) :
                    r \in SeqsUpTo(CollisionPool, MaxRoster)}
    /\ roster = <<>>
    /\ arg = <<>>
    /\ result = <<>>
    /\ idx = 0
    /\ succeeded = <<>>
    /\ failed = <<>>
    /\ files = [d \in Dests |-> "absent"]
    /\ view = "blank"
    /\ filter = FALSE
    /\ steps = <<>>
    /\ ev = NoEv

CollisionSpec == CollisionInit /\ [][Next]_vars

\* ------------------------------------------------- load_applicants on its own
LoadInit ==
    /\ batch = NoBatch
    /\ pdf = NoPdf
    /\ pc = "load"
    /\ sheet \in LoadSheets
    /\ roster = <<>>
    /\ arg = <<>>
    /\ result = <<>>
    /\ idx = 0
    /\ succeeded = <<>>
    /\ failed = <<>>
    /\ files = [d \in Dests |-> "absent"]
    /\ view = "blank"
    /\ filter = FALSE
    /\ steps = <<>>
    /\ ev = NoEv

LoadNext == LoadApplicants

LoadSpec == LoadInit /\ [][LoadNext]_vars

\* ------------------------------------------------------- clean() on its own
CleanInit ==
    /\ batch = NoBatch
    /\ pdf = NoPdf
    /\ pc = "clean"
    /\ arg \in Names
    /\ result = <<>>
    /\ sheet = <<<<FIRST_NAME_COL, LAST_NAME_COL>>>>
    /\ roster = <<>>
    /\ idx = 0
    /\ succeeded = <<>>
    /\ failed = <<>>
    /\ files = [d \in Dests |-> "absent"]
    /\ view = "blank"
    /\ filter = FALSE
    /\ steps = <<>>
    /\ ev = NoEv

\* clean(s)
Clean ==
    /\ pc = "clean"
    /\ pc' = "cleaned"
    /\ result' = clean(arg)
    /\ UNCHANGED <<batch, pdf, sheet, arg, roster, idx, succeeded, failed, files, view, filter,
                   steps, ev>>

\* clean(clean(s))
CleanAgain ==
    /\ pc = "cleaned"
    /\ pc' = "recleaned"
    /\ result' = clean(result)
    /\ UNCHANGED <<batch, pdf, sheet, arg, roster, idx, succeeded, failed, files, view, filter,
                   steps, ev>>

CleanNext == Clean \/ CleanAgain

CleanSpec == CleanInit /\ [][CleanNext]_vars

\* ----------------------------------------- extract_text_from_pdf on its own
MoreThanThreshold(n, th) == n > th

\* len(text) >= ocr_threshold
AtLeastThreshold(n, th) == n >= th

\* the element appended to full_text for one page
PageSegment(page_num, page, th, available) ==
    LET text == Strip(page.text)
        ocr_text == Strip(page.ocr.text)
    IN IF AtLeastThreshold(Len(text), th)
       THEN [page |-> page_num, tag |-> "", text |-> text]
       ELSE IF available
       THEN IF ocr_text # <<>>
            THEN [page |-> page_num, tag |-> "OCR", text |-> ocr_text]
            ELSE [page |-> page_num, tag |-> "OCR: no text detected", text |-> <<>>]
       ELSE [page |-> page_num, tag |-> "scanned, OCR not available", text |-> <<>>]

\* the page is rendered and handed to pytesseract.image_to_string
SentToOcr(page, th, available) ==
    ~AtLeastThreshold(Len(Strip(page.text)), th) /\ available

\* for page_num, page in enumerate(doc, start=1), from page_num on; an
\* exception of image_to_string ends the function
RECURSIVE ExtractPages(_, _, _, _, _)
ExtractPages(doc, page_num, th, available, acc) ==
    IF page_num > Len(doc) THEN acc
    ELSE LET page == doc[page_num]
             sent == SentToOcr(page, th, available)
             seen == IF sent THEN Append(acc.ocr_pages, page_num) ELSE acc.ocr_pages
         IN IF sent /\ page.ocr.err
            THEN [acc EXCEPT !.raised = TRUE, !.ocr_pages = seen]
            ELSE ExtractPages(doc, page_num + 1, th, available,
                    [acc EXCEPT !.ocr_pages = seen,
                                !.full_text = Append(acc.full_text,
                                    PageSegment(page_num, page, th, available))])

extract_text_from_pdf(doc, th, available) ==
    ExtractPages(doc, 1, th, available,
                 [raised |-> FALSE, full_text |-> <<>>, ocr_pages |-> <<>>])

ExtractInit ==
    /\ batch = NoBatch
    /\ pc = "extract"
    /\ pdf \in [doc : Docs, ocr_threshold : Thresholds, OCR_AVAILABLE : BOOLEAN,
                 raised : {FALSE}, full_text : {<<>>}, ocr_pages : {<<>>}]
    /\ sheet = <<<<FIRST_NAME_COL, LAST_NAME_COL>>>>
    /\ roster = <<>>
    /\ arg = <<>>
    /\ result = <<>>
    /\ idx = 0
    /\ succeeded = <<>>
    /\ failed = <<>>
    /\ files = [d \in Dests |-> "absent"]
    /\ view = "blank"
    /\ filter = FALSE
    /\ steps = <<>>
    /\ ev = NoEv

\* extract_text_from_pdf(pdf_path, ocr_threshold)
Extract ==
    /\ pc = "extract"
    /\ pc' = "extracted"
    /\ LET r == extract_text_from_pdf(pdf.doc, pdf.ocr_threshold, pdf.OCR_AVAILABLE)
       IN pdf' = [pdf EXCEPT !.raised = r.raised, !.full_text = r.full_text,
                             !.ocr_pages = r.ocr_pages]
    /\ UNCHANGED <<batch, sheet, arg, result, roster, idx, succeeded, failed, files,
                   view, filter, steps, ev>>

ExtractNext == Extract

ExtractSpec == ExtractInit /\ [][ExtractNext]_vars

\* --------------------------------------------------------- batch_convert
\* ord() of the characters of file names
Code(c) ==
    CASE c = "B" -> 66
      [] c = "a" -> 97
      [] c = "b" -> 98
      [] OTHER -> 0

\* s < t on strings
RECURSIVE NameLess(_, _)
NameLess(s, t) ==
    IF t = <<>> THEN FALSE
    ELSE IF s = <<>> THEN TRUE
    ELSE IF Head(s) # Head(t) THEN Code(Head(s)) < Code(Head(t))
    ELSE NameLess(Tail(s), Tail(t))

RECURSIVE Insert(_, _)
Insert(f, l) ==
    IF l = <<>> THEN <<f>>
    ELSE IF NameLess(f.stem, Head(l).stem) THEN <<f>> \o l
    ELSE <<Head(l)>> \o Insert(f, Tail(l))

\* sorted(input_path.glob("*.pdf"))
RECURSIVE Sorted(_)
Sorted(l) == IF l = <<>> THEN <<>> ELSE Insert(Head(l), Sorted(Tail(l)))

BatchInit ==
    /\ pc = "batch"
    /\ \E e \in BOOLEAN, o \in BOOLEAN, l \in Listings :
        /\ ~e => l = <<>>
        /\ batch = [NoBatch EXCEPT !.exists = e, !.listing = l, !.OCR_AVAILABLE = o]
    /\ pdf = NoPdf
    /\ sheet = <<<<FIRST_NAME_COL, LAST_NAME_COL>>>>
    /\ roster = <<>>
    /\ arg = <<>>
    /\ result = <<>>
    /\ idx = 0
    /\ succeeded = <<>>
    /\ failed = <<>>
    /\ files = [d \in Dests |-> "absent"]
    /\ view = "blank"
    /\ filter = FALSE
    /\ steps = <<>>
    /\ ev = NoEv

\* batch_convert up to the loop: sys.exit when the folder is missing or holds
\* no PDF
FindPdfs ==
    /\ pc = "batch"
    /\ IF ~batch.exists
       THEN pc' = "exit" /\ batch' = batch
       ELSE /\ batch' = [batch EXCEPT !.pdf_files = Sorted(batch.listing)]
            /\ pc' = IF batch.listing = <<>> THEN "exit" ELSE "convert"
    /\ UNCHANGED <<pdf, sheet, arg, result, roster, idx, succeeded, failed, files,
                   view, filter, steps, ev>>

AfterConvertErrorStops == "done"

\* where batch_convert continues after its except clause
AfterConvertError == "convert"

\* one turn of the for loop over pdf_files
ConvertOne ==
    /\ pc = "convert"
    /\ batch.i < Len(batch.pdf_files)
    /\ LET pdf_file == batch.pdf_files[batch.i + 1]
           r == extract_text_from_pdf(pdf_file.kind.doc, ocr_threshold,
                                      batch.OCR_AVAILABLE)
           ok == pdf_file.kind.opens /\ ~r.raised /\ pdf_file.kind.writable
       IN /\ batch' = [batch EXCEPT
                !.i = batch.i + 1,
                !.log = Append(batch.log, pdf_file.stem),
                !.written = IF ok THEN batch.written \cup {pdf_file.stem}
                            ELSE batch.written,
                !.success = IF ok THEN batch.success + 1 ELSE batch.success,
                !.failed = IF ok THEN batch.failed
                           ELSE Append(batch.failed, pdf_file.stem)]
          /\ pc' = IF ok THEN "convert" ELSE AfterConvertError
    /\ UNCHANGED <<pdf, sheet, arg, result, roster, idx, succeeded, failed, files,
                   view, filter, steps, ev>>

\* the loop is exhausted: the summary is printed
Summary ==
    /\ pc = "convert"
    /\ batch.i = Len(batch.pdf_files)
    /\ pc' = "done"
    /\ UNCHANGED <<batch, pdf, sheet, arg, result, roster, idx, succeeded, failed,
                   files, view, filter, steps, ev>>

BatchNext == FindPdfs \/ ConvertOne \/ Summary

BatchSpec == BatchInit /\ [][BatchNext]_vars

\* every await of the loop is bounded by a timeout, so the loop keeps stepping
FairSpec == Spec /\ WF_vars(LoopNext)

\* ================================================================ claims
StepPcs == {"search", "sidebar", "row", "tab", "expand", "download"}

\* the roster entry the last operation worked for
LastApplicant == IF pc \in StepPcs THEN roster[idx + 1] ELSE roster[idx]

\* the rows of the last search that contain both names, ignoring case
Matching ==
    {i \in 1..Len(ev.rows) :
        /\ Contains(Lower(LastApplicant.first), Lower(ev.rows[i]))
        /\ Contains(Lower(LastApplicant.last), Lower(ev.rows[i]))}

Lowest(S) == CHOOSE i \in S : \A j \in S : i <= j

\* the last search got as far as reading the result rows
RowsRead == ev.op = "search" /\ ev.typed

\* the last entry of failed is for the roster entry just finished
LastFailedIs(reason) ==
    /\ pc \notin StepPcs
    /\ idx >= 1
    /\ failed # <<>>
    /\ failed[Len(failed)] = [name |-> FullName(roster[idx]), reason |-> reason]

\* C1: once the operator has confirmed at the prompt, whatever the steps
\* return or raise, the loop finishes every roster entry and the run reaches
\* the final summary.
C1_BatchForwardProgress ==
    (pc = "loop") ~> (pc = "done" /\ idx = Len(roster))

C1_Witness ==
    /\ pc = "done"
    /\ Len(roster) >= 2
    /\ idx = Len(roster)
    /\ failed # <<>>
    /\ failed[1].name = FullName(roster[1])
    /\ failed[1].reason = "error"

\* C2: after k roster entries have been handled the two outcome lists hold k
\* entries together, as many for each name as the first k roster entries hold
\* it; at the end of the run they hold as many entries as the roster.
EntriesFor(n) ==
    Cardinality({i \in DOMAIN succeeded : succeeded[i] = n})
    + Cardinality({i \in DOMAIN failed : failed[i].name = n})

C2_OutcomePartition ==
    /\ Len(succeeded) + Len(failed) = idx
    /\ \A a \in Pool :
        EntriesFor(FullName(a))
        = Cardinality({i \in 1..idx : FullName(roster[i]) = FullName(a)})
    /\ pc = "done" => Len(succeeded) + Len(failed) = Len(roster)

C2_Witness ==
    /\ pc = "done"
    /\ Len(roster) >= 2
    /\ succeeded # <<>>
    /\ failed # <<>>

\* C3 (as claimed): a roster entry is counted as success without a fetch only
\* if its destination file exists with nonzero size.
C3_SkipOnlyNonEmpty ==
    ev.op = "skip"
        => files[safe_filename(roster[idx].first, roster[idx].last)] = "data"

\* C4: a skipped roster entry costs no navigator operation and no download,
\* leaves the session and every file as they were and is appended to
\* succeeded; a roster entry is taken through the session exactly if its
\* destination file is absent when its turn comes.
C4_Turn == pc = "loop" /\ idx < Len(roster) /\ idx' = idx + 1

C4_ResumeUntouched ==
    [][ /\ (C4_Turn /\ ev'.op = "skip") =>
            /\ steps' = <<>>
            /\ view' = view
            /\ filter' = filter
            /\ files' = files
            /\ failed' = failed
            /\ succeeded' = Append(succeeded, FullName(roster[idx + 1]))
        /\ (pc = "loop" /\ idx < Len(roster)) =>
            /\ (files[safe_filename(roster[idx + 1].first, roster[idx + 1].last)]
                    = "absent") => (steps' # <<>> /\ ev'.op = "back")
            /\ (files[safe_filename(roster[idx + 1].first, roster[idx + 1].last)]
                    # "absent") => (steps' = <<>> /\ ev'.op = "skip")
      ]_vars

C4_Witness ==
    /\ ev.op = "skip"
    /\ idx >= 2
    /\ failed # <<>>
    /\ view = "profile"

\* C5 (as claimed): when go_back_to_list has timed out on the entry point, the
\* roster entry is recorded as failed and no search is started for it.
C5_BackTimeoutFails ==
    (ev.op = "back" /\ ev.timedOut)
        => /\ pc \notin StepPcs
           /\ idx >= 1
           /\ failed # <<>>
           /\ failed[Len(failed)].name = FullName(roster[idx])

\* C6 (as claimed): whenever search_and_open_applicant is about to start, the
\* session shows the roster list with no search filter left active.
C6_ListViewBeforeSearch ==
    pc = "search" => (view = "list" /\ ~filter)

\* C7: on a non-empty result the row clicked is the lowest-index row that
\* contains both names ignoring case; with no such row and exactly one row it
\* is that row; no other row is ever clicked.
C7_Selection ==
    (RowsRead /\ ev.rows # <<>>) =>
        /\ Matching # {} =>
            /\ ev.res # "fail"
            /\ ev.clicked \in {0, Lowest(Matching)}
            /\ ev.res = "ok" => ev.clicked = Lowest(Matching)
        /\ (Matching = {} /\ Len(ev.rows) = 1) =>
            /\ ev.res # "fail"
            /\ ev.clicked \in {0, 1}
            /\ ev.res = "ok" => ev.clicked = 1
        /\ (Matching = {} /\ Len(ev.rows) # 1) => ev.clicked = 0

C7_Witness ==
    /\ RowsRead
    /\ Len(ev.rows) >= 2
    /\ ev.res = "ok"
    /\ ev.clicked = 2
    /\ Matching = {2}

\* C8 (as claimed): with zero rows, or with two or more rows of which none or
\* more than one contains both names, the search fails, no row is clicked and
\* the roster entry is recorded as failed.
C8_Ambiguous ==
    \/ Len(ev.rows) = 0
    \/ (Len(ev.rows) >= 2 /\ Cardinality(Matching) # 1)

C8_NoGuessAsClaimed ==
    (RowsRead /\ C8_Ambiguous) =>
        (ev.res = "fail" /\ ev.clicked = 0 /\ LastFailedIs("not found"))

\* C8 (amended): with zero rows, or with two or more rows none of which
\* contains both names, the search fails, no row is clicked and the roster
\* entry is recorded as failed with "not found".
C8_NoGuessWithoutMatch ==
    (RowsRead /\ (Len(ev.rows) = 0 \/ (Len(ev.rows) >= 2 /\ Matching = {}))) =>
        (ev.res = "fail" /\ ev.clicked = 0 /\ LastFailedIs("not found"))

C8_Witness ==
    /\ RowsRead
    /\ Len(ev.rows) >= 2
    /\ Matching = {}
    /\ ev.res = "fail"
    /\ LastFailedIs("not found")

\* C9 (as claimed): with the search controls present and a row containing both
\* names, a portal that never reaches network idle still gets the surname
\* typed and the search step does not fail.
C9_IdleNotRequired ==
    (ev.op = "search" /\ ~ev.idle /\ ev.ui = "ok" /\ Matching # {})
        => (ev.typed /\ ev.res # "fail")

\* C10 (as claimed): an operation ended by a timeout of a wait or click,
\* fallback included, hands a failure value to its caller and raises nothing.
C10_TimeoutIsFailureValue ==
    ev.timedOut => ev.res \in {"fail", "none"}

\* C11 (as claimed): a roster entry lands in failed only for a failure of the
\* navigation before any document fetch; a fetch that fails after the
\* navigation succeeded never puts it there.
C11_FailedOnlyForNavigation ==
    \A i \in DOMAIN failed : failed[i].reason # "download failed"

\* C12: when search, sidebar, application row, ATTACHMENTS tab or APPLICATION
\* PDF section reports failure, the roster entry is recorded as failed with
\* the reason of that step, the loop turns to the next entry without a later
\* step or a download, and no file is written before the download step.
C12_ReasonOf(p) ==
    CASE p = "search" -> "not found"
      [] p = "sidebar" -> "Applications sidebar missing"
      [] p = "row" -> "could not open application"
      [] p = "tab" -> "ATTACHMENTS tab missing"
      [] p = "expand" -> "APPLICATION PDF section missing"
      [] OTHER -> "none"

C12_StepFailureStops ==
    [][ /\ (pc \in StepPcs \ {"download"} /\ ev'.res = "fail") =>
            /\ ev'.op = pc
            /\ failed' = Append(failed, [name |-> FullName(roster[idx + 1]),
                                         reason |-> C12_ReasonOf(pc)])
            /\ succeeded' = succeeded
            /\ idx' = idx + 1
            /\ pc' = "loop"
            /\ steps' = Append(steps, pc)
            /\ \A j \in DOMAIN steps' : j < Len(steps') => steps'[j] # pc
            /\ \A j \in DOMAIN steps' : steps'[j] # "download"
        /\ pc # "download" => files' = files
      ]_vars

C12_Witness ==
    /\ ev.op = "tab"
    /\ ev.res = "fail"
    /\ LastFailedIs("ATTACHMENTS tab missing")
    /\ steps = <<"back", "search", "sidebar", "row", "tab">>

\* C13: when a step raises while roster entry k is worked on, exactly one
\* entry for k is appended to failed, none to succeeded, and the loop goes on
\* with entry k+1.
C13_SafetyNet ==
    [][ (pc \in StepPcs \cup {"loop"} /\ ev'.res = "raise") =>
            /\ failed' = Append(failed, [name |-> FullName(roster[idx + 1]),
                                         reason |-> "error"])
            /\ succeeded' = succeeded
            /\ idx' = idx + 1
            /\ pc' = "loop"
      ]_vars

C13_Witness ==
    /\ ev.op = "search"
    /\ ev.res = "raise"
    /\ pc = "loop"
    /\ idx = 1
    /\ Len(roster) >= 2
    /\ LastFailedIs("error")

\* C14: every roster entry listed in succeeded has its destination file on
\* disk, and download_pdf reports success only with the file saved.
C14_FilePresence ==
    /\ \A a \in Pool :
        (\E i \in DOMAIN succeeded : succeeded[i] = FullName(a))
            => files[safe_filename(a.first, a.last)] # "absent"
    /\ (ev.op = "download" /\ ev.res = "ok")
            => files[safe_filename(LastApplicant.first, LastApplicant.last)] # "absent"

C14_Witness ==
    /\ ev.op = "download"
    /\ ev.res = "ok"
    /\ succeeded # <<>>

\* C17: roster entries are handled one at a time in roster order: each turn
\* of the loop records the outcome of entry idx + 1 in exactly one list before
\* the next entry starts, so each list follows the order of the roster.
RECURSIVE IsSubsequence(_, _)
IsSubsequence(s, t) ==
    IF s = <<>> THEN TRUE
    ELSE IF t = <<>> THEN FALSE
    ELSE IF Head(s) = Head(t) THEN IsSubsequence(Tail(s), Tail(t))
    ELSE IsSubsequence(s, Tail(t))

C17_RosterNames == [i \in 1..idx |-> FullName(roster[i])]

C17_RosterOrder ==
    /\ [](/\ IsSubsequence(succeeded, C17_RosterNames)
          /\ IsSubsequence([i \in DOMAIN failed |-> failed[i].name], C17_RosterNames)
          /\ (steps # <<>> /\ pc \in StepPcs) => Len(succeeded) + Len(failed) = idx)
    /\ [][ /\ idx' \in {idx, idx + 1}
           /\ (idx' = idx + 1) =>
                \/ /\ succeeded' = Append(succeeded, FullName(roster[idx + 1]))
                   /\ failed' = failed
                \/ /\ succeeded' = succeeded
                   /\ Len(failed') = Len(failed) + 1
                   /\ SubSeq(failed', 1, Len(failed)) = failed
                   /\ failed'[Len(failed')].name = FullName(roster[idx + 1])
           /\ (idx' = idx) => (succeeded' = succeeded /\ failed' = failed)
         ]_vars

C17_Witness ==
    /\ pc = "done"
    /\ Len(roster) >= 2
    /\ roster[1] # roster[2]
    /\ Len(succeeded) >= 2

\* C15: when the header row lacks the first-name or the last-name column, the
\* process ends in load_applicants: no browser session is launched, no
\* operation is awaited, no roster entry is processed and nothing follows.
C15_Malformed ==
    \/ ~ \E i \in DOMAIN sheet[1] : sheet[1][i] = "First Name"
    \/ ~ \E i \in DOMAIN sheet[1] : sheet[1][i] = "Last Name"

C15_MalformedRosterAborts ==
    /\ [](C15_Malformed =>
            /\ pc \in {"load", "exit"}
            /\ view = "blank"
            /\ steps = <<>>
            /\ ev = NoEv
            /\ roster = <<>>
            /\ idx = 0
            /\ succeeded = <<>>
            /\ failed = <<>>)
    /\ [][pc # "exit"]_vars

C15_Witness ==
    /\ pc = "exit"
    /\ C15_Malformed
    /\ Len(sheet) >= 2

\* C16: nothing is awaited for any roster entry before input() returns, and
\* when input() raises EOFError or KeyboardInterrupt main returns with no
\* roster entry processed and no outcome recorded.
C16_LoginGate ==
    /\ []((ev.op = "input" /\ ev.res = "raise") =>
            /\ pc = "interrupted"
            /\ idx = 0
            /\ steps = <<>>
            /\ succeeded = <<>>
            /\ failed = <<>>)
    /\ [][ /\ pc \in {"load", "launch", "prompt"} =>
                /\ steps' = <<>>
                /\ ev'.op \in {"none", "input"}
                /\ idx' = 0
                /\ succeeded' = <<>>
                /\ failed' = <<>>
                /\ files' = files
           /\ pc # "interrupted"
         ]_vars

C16_Witness ==
    /\ pc = "interrupted"
    /\ roster # <<>>
    /\ ev.op = "input"
    /\ ev.res = "raise"

\* C18: load_applicants returns, in the order of the worksheet, one record
\* (the stripped first-name and last-name cells) for each row after the header
\* row in which one of the two cells is not blank, and none for the others.
C18_Blank(c) == \A k \in DOMAIN c : c[k] = " "

C18_Spaces(n) == [k \in 1..n |-> " "]

C18_IsStripOf(t, c) ==
    /\ t # <<>> => (t[1] # " " /\ t[Len(t)] # " ")
    /\ \E a, b \in 0..Len(c) : c = C18_Spaces(a) \o t \o C18_Spaces(b)

C18_Col(name) == CHOOSE i \in DOMAIN sheet[1] : sheet[1][i] = name

C18_Kept ==
    {i \in 2..Len(sheet) :
        ~ (C18_Blank(sheet[i][C18_Col("First Name")])
           /\ C18_Blank(sheet[i][C18_Col("Last Name")]))}

C18_RosterLoading ==
    pc = "launch" =>
        /\ Len(roster) = Cardinality(C18_Kept)
        /\ \A j \in DOMAIN roster :
            \E i \in C18_Kept :
                /\ Cardinality({k \in C18_Kept : k < i}) = j - 1
                /\ C18_IsStripOf(roster[j].first, sheet[i][C18_Col("First Name")])
                /\ C18_IsStripOf(roster[j].last, sheet[i][C18_Col("Last Name")])

C18_Witness ==
    /\ pc = "launch"
    /\ Len(sheet) = 3
    /\ sheet[1][1] = "Last Name"
    /\ Len(roster) = 1
    /\ roster[1] = [first |-> <<>>, last |-> <<"A">>]
    /\ 3 \in C18_Kept

\* C19: clean returns a string as long as its argument, made of word
\* characters and hyphens only, in which every other character of the argument
\* is an underscore and the rest are kept; cleaning twice equals cleaning once.
C19_Kept == {"a", "L", "1", "_", "-"}

C19_CleanNormalises ==
    /\ [](pc \in {"cleaned", "recleaned"} =>
            /\ Len(result) = Len(arg)
            /\ \A i \in DOMAIN arg :
                /\ result[i] \in C19_Kept
                /\ arg[i] \in C19_Kept => result[i] = arg[i]
                /\ arg[i] \notin C19_Kept => result[i] = "_")
    /\ [][pc = "cleaned" => result' = result]_vars

C19_Witness ==
    /\ pc = "recleaned"
    /\ Len(arg) = 3
    /\ \E i, j, k \in DOMAIN arg : arg[i] = "-" /\ arg[j] = "/" /\ arg[k] = "1"

\* C20 (as claimed): when download_pdf fails, the entry recorded in failed
\* carries the message of the error that made it fail.
C20_MessagePreserved ==
    (ev.op = "download" /\ ev.res = "fail") =>
        /\ failed # <<>>
        /\ failed[Len(failed)].reason \in {ev.msg, "download failed: " \o ev.msg}

\* C21: for a roster entry that is not skipped the operations are awaited in
\* the order go_back_to_list, search_and_open_applicant,
\* click_applications_sidebar, click_application_row, click_attachments_tab,
\* expand_application_pdf, download_pdf, each at most once: what has been
\* awaited is always a prefix of that sequence, it grows by the next operation
\* of the same roster entry, and a new entry starts only after the outcome of
\* the one before is recorded.
C21_Order == <<"back", "search", "sidebar", "row", "tab", "expand", "download">>

C21_FixedStepOrder ==
    /\ [](/\ Len(steps) <= Len(C21_Order)
          /\ steps = SubSeq(C21_Order, 1, Len(steps))
          /\ pc \in StepPcs => (steps # <<>> /\ pc = C21_Order[Len(steps) + 1]))
    /\ [][ steps' # steps =>
            \/ /\ steps' = <<>>
               /\ pc = "loop"
            \/ /\ steps' = <<"back">>
               /\ pc = "loop"
               /\ Len(succeeded) + Len(failed) = idx
               /\ ev'.op = "back"
            \/ /\ pc \in StepPcs
               /\ Len(steps) < Len(C21_Order)
               /\ steps' = Append(steps, C21_Order[Len(steps) + 1])
               /\ ev'.op = C21_Order[Len(steps) + 1]
               /\ idx' = idx \/ (idx' = idx + 1 /\ pc' = "loop")
         ]_vars

C21_Witness ==
    /\ steps = C21_Order
    /\ idx = 2
    /\ roster[1] # roster[2]
    /\ Len(succeeded) = 2

\* C22: click_application_row clicks the first application link first; it
\* clicks the last cell of the first row exactly when that first click timed
\* out; it returns True exactly when one of the two clicks succeeded, and
\* False when both timed out.
C22_TwoStrategyFallback ==
    ev.op = "row" =>
        /\ ev.link # "none"
        /\ ev.fallback # "none" <=> ev.link = "timeout"
        /\ ev.res = "ok" <=> (ev.link = "ok" \/ ev.fallback = "ok")
        /\ (ev.link = "timeout" /\ ev.fallback = "timeout") => ev.res = "fail"

C22_Witness ==
    /\ ev.op = "row"
    /\ ev.link = "timeout"
    /\ ev.fallback = "ok"
    /\ ev.res = "ok"
    /\ pc = "tab"

\* C23 (as claimed): in a run that starts with no destination file on disk,
\* no roster entry is skipped and counted as succeeded because of a file that
\* was downloaded earlier in the run for a roster entry with other names.
C23_NoSkipByCollision ==
    [][ ev'.op = "skip" =>
          ~ \E j \in 1..idx :
              /\ roster[j] # roster[idx + 1]
              /\ safe_filename(roster[j].first, roster[j].last)
                    = safe_filename(roster[idx + 1].first, roster[idx + 1].last)
              /\ \E k \in DOMAIN succeeded : succeeded[k] = FullName(roster[j])
              /\ succeeded' = Append(succeeded, FullName(roster[idx + 1]))
      ]_vars

\* C24: when extract_text_from_pdf returns, full_text holds one segment per
\* page in page order; a page whose stripped text has at least ocr_threshold
\* characters gives that text and is not sent to OCR; a shorter one is sent to
\* OCR exactly when OCR is available, gives the placeholder "scanned, OCR not
\* available" when it is not, and "OCR: no text detected" when OCR reads
\* nothing.
C24_Direct(n) == Len(Strip(pdf.doc[n].text)) >= pdf.ocr_threshold

C24_OcrPages == {pdf.ocr_pages[k] : k \in DOMAIN pdf.ocr_pages}

C24_PerPageRule ==
    pc = "extracted" =>
        /\ ~pdf.raised => Len(pdf.full_text) = Len(pdf.doc)
        /\ \A n \in C24_OcrPages : n \in DOMAIN pdf.doc /\ ~C24_Direct(n)
        /\ \A j, k \in DOMAIN pdf.ocr_pages : j < k => pdf.ocr_pages[j] < pdf.ocr_pages[k]
        /\ \A n \in DOMAIN pdf.full_text :
            LET seg == pdf.full_text[n]
                page == pdf.doc[n]
            IN /\ seg.page = n
               /\ C24_Direct(n) =>
                    /\ seg.tag = ""
                    /\ seg.text = Strip(page.text)
                    /\ n \notin C24_OcrPages
               /\ ~C24_Direct(n) =>
                    /\ n \in C24_OcrPages <=> pdf.OCR_AVAILABLE
                    /\ ~pdf.OCR_AVAILABLE =>
                            seg = [page |-> n, tag |-> "scanned, OCR not available",
                                   text |-> <<>>]
                    /\ (pdf.OCR_AVAILABLE /\ \A i \in DOMAIN page.ocr.text :
                                                    page.ocr.text[i] = " ") =>
                            seg = [page |-> n, tag |-> "OCR: no text detected",
                                   text |-> <<>>]
                    /\ (pdf.OCR_AVAILABLE /\ \E i \in DOMAIN page.ocr.text :
                                                    page.ocr.text[i] # " ") =>
                            (seg.tag = "OCR" /\ seg.text = Strip(page.ocr.text))

C24_Witness ==
    /\ pc = "extracted"
    /\ ~pdf.raised
    /\ pdf.OCR_AVAILABLE
    /\ pdf.ocr_threshold = 50
    /\ Len(pdf.doc) = 2
    /\ Len(pdf.doc[1].text) = 50
    /\ pdf.full_text[1].tag = ""
    /\ Len(pdf.doc[2].text) = 51
    /\ pdf.full_text[2].tag = "OCR: no text detected"
    /\ pdf.ocr_pages = <<2>>

\* C25: batch_convert works through the PDFs the folder lists once each, in
\* the order of their names; a PDF that fails is recorded and the loop goes
\* on; the summary is reached with success + len(failed) equal to the number
\* of PDFs found, and success counts only PDFs whose .txt file was written.
C25_Names(l) == {l[k].stem : k \in DOMAIN l}

C25_BatchResilience ==
    /\ [](pc \in {"convert", "done"} =>
            /\ Len(batch.pdf_files) = Len(batch.listing)
            /\ C25_Names(batch.pdf_files) = C25_Names(batch.listing)
            /\ \A j, k \in DOMAIN batch.pdf_files :
                    j < k => NameLess(batch.pdf_files[j].stem, batch.pdf_files[k].stem)
            /\ batch.log = [k \in 1..batch.i |-> batch.pdf_files[k].stem]
            /\ batch.success + Len(batch.failed) = batch.i
            /\ batch.success = Cardinality(batch.written)
            /\ \A k \in DOMAIN batch.failed : batch.failed[k] \notin batch.written
            /\ pc = "done" => batch.i = Len(batch.listing))
    /\ [][ (pc = "convert" /\ batch.i < Len(batch.pdf_files)) =>
                /\ pc' = "convert"
                /\ batch'.i = batch.i + 1
                /\ batch'.success = batch.success + 1 =>
                        batch.pdf_files[batch.i + 1].stem \in batch'.written
         ]_vars

C25_Witness ==
    /\ pc = "done"
    /\ Len(batch.listing) = 2
    /\ NameLess(batch.listing[2].stem, batch.listing[1].stem)
    /\ batch.success = 1
    /\ Len(batch.failed) = 1
    /\ batch.log[1] = batch.failed[1]

====
